---- MODULE Spec2Model ----
(***************************************************************************)
(* The Monkey front end: lexer (package lexer), Pratt parser (package      *)
(* parser), the AST pretty-printer (package ast) and the REPL (package     *)
(* repl).                                                                  *)
(*                                                                         *)
(* A byte is a one-character string; the byte 0 is written NUL.  A Go      *)
(* string is a sequence of bytes.  A token is [Type, Literal].  An AST     *)
(* node is a record with a field kind; the nil interface value is Nil, a   *)
(* nil *ast.LetStatement stored in an interface is NilLetStatement.        *)
(*                                                                         *)
(* The parser's recursion is kept on an explicit call stack: one frame    *)
(* per active Go call, one action per Go function, a frame's pc naming    *)
(* the point of the function the call stands at.                          *)
(***************************************************************************)
EXTENDS Integers, Sequences, FiniteSets, TLC

VARIABLES
    stdin,          \* repl.Start: the lines still to be read from `in`
    out,            \* repl.Start: what was written to `out`, one entry a write
    history,        \* per finished line: the line, the errors and the Program
    phase,          \* where repl.Start (or the lexer driver) stands
    lexer,          \* lexer.Lexer: input, position, readPosition, char
    errors,         \* parser.Parser.errors
    currentToken,   \* parser.Parser.currentToken
    peekToken,      \* parser.Parser.peekToken
    stack,          \* the call stack below ParseProgram
    ret,            \* the value the last finished call returned
    tokens,         \* the tokens NextToken has returned to a direct caller
    skipped         \* the whitespace bytes those calls skipped

vars == <<stdin, out, history, phase, lexer, errors, currentToken, peekToken,
          stack, ret, tokens, skipped>>

----------------------------------------------------------------------------
(* Bounds of the model.                                                    *)

\* longest input handed to the lexer driver, in bytes
MaxInput == 4
\* NextToken calls the lexer driver makes on one input
MaxCalls == 6
\* longest error list a parse may build before the model stops following it
MaxErrors == 8
\* most lexemes of an input of Spec
MaxTokens == 4
\* most lexemes after the point where a let statement fails, in LetSpec
MaxRest == 4
\* longest digit run of IntSpec
MaxDigits == 3
\* deepest nesting of the expressions of RoundTripSpec
MaxDepth == 2
\* most binary operators of an input of PrecedenceSpec
MaxOps == 3
\* most binary operators of an expression that GroupSpec parenthesises whole
MaxGroupOps == 2
\* most arguments of a call of CallSpec
MaxArgs == 3
\* most parameters of a function literal of FormSpec
MaxParams == 3
\* most tokens of a sentence of SemicolonSpec
MaxWords == 4
\* longest input of IdentSpec drawn from its bytes
MaxIdent == 4
\* most tokens of a sentence of ExpectSpec
MaxExpect == 3
\* most tokens of a sentence of MissSpec
MaxMiss == 3
MaxParamTokens == 3
MaxComplete == 2

----------------------------------------------------------------------------
(* Bytes.                                                                  *)

NUL == "NUL"

Letters ==
    {"a","b","c","d","e","f","g","h","i","j","k","l","m","n","o","p","q","r",
     "s","t","u","v","w","x","y","z",
     "A","B","C","D","E","F","G","H","I","J","K","L","M","N","O","P","Q","R",
     "S","T","U","V","W","X","Y","Z","_"}

Digits == {"0","1","2","3","4","5","6","7","8","9"}

isLetter(char) == char \in Letters

isDigit(char) == char \in Digits

----------------------------------------------------------------------------
(* package token: kinds and the keyword table.                             *)

Token(type, literal) == [Type |-> type, Literal |-> literal]

keywords ==
    [lit \in {<<"f","n">>, <<"l","e","t">>, <<"t","r","u","e">>,
              <<"f","a","l","s","e">>, <<"i","f">>, <<"e","l","s","e">>,
              <<"r","e","t","u","r","n">>} |->
        CASE lit = <<"f","n">> -> "FUNCTION"
          [] lit = <<"l","e","t">> -> "LET"
          [] lit = <<"t","r","u","e">> -> "TRUE"
          [] lit = <<"f","a","l","s","e">> -> "FALSE"
          [] lit = <<"i","f">> -> "IF"
          [] lit = <<"e","l","s","e">> -> "ELSE"
          [] OTHER -> "RETURN"]

LookupIdent(ident) ==
    IF ident \in DOMAIN keywords THEN keywords[ident] ELSE "IDENT"

----------------------------------------------------------------------------
(* package lexer.                                                          *)

peekChar(l) ==
    IF l.readPosition >= Len(l.input)
    THEN NUL
    ELSE l.input[l.readPosition + 1]

readChar(l) ==
    [l EXCEPT !.char = peekChar(l),
              !.position = l.readPosition,
              !.readPosition = l.readPosition + 1]

LexerNew(input) ==
    readChar([input |-> input, position |-> 0, readPosition |-> 0, char |-> NUL])

RECURSIVE skipWhitespace(_)
skipWhitespace(l) ==
    IF l.char \in {" ", "\t", "\n", "\r"}
    THEN skipWhitespace(readChar(l))
    ELSE l

newToken(tokenType, char) == Token(tokenType, <<char>>)

\* the bytes input[from:to] of a Go slice expression (0-based, to exclusive)
Slice(input, from, to) == SubSeq(input, from + 1, to)

RECURSIVE readWhile(_, _)
readWhile(l, class) ==
    IF l.char \in class THEN readWhile(readChar(l), class) ELSE l

\* readIdentifier with the bug of taking digits into the run
readIdentifier_WithDigits(l) ==
    LET l2 == readWhile(l, Letters \cup Digits)
    IN  [lexer |-> l2, literal |-> Slice(l.input, l.position, l2.position)]

readIdentifier(l) ==
    LET l2 == readWhile(l, Letters)
    IN  [lexer |-> l2, literal |-> Slice(l.input, l.position, l2.position)]

readNumber(l) ==
    LET l2 == readWhile(l, Digits)
    IN  [lexer |-> l2, literal |-> Slice(l.input, l.position, l2.position)]

SingleChar ==
    [c \in {"+", "-", "/", "*", "<", ">", ";", ",", "(", ")", "{", "}"} |->
        CASE c = "+" -> "PLUS"
          [] c = "-" -> "MINUS"
          [] c = "/" -> "SLASH"
          [] c = "*" -> "ASTERISK"
          [] c = "<" -> "LT"
          [] c = ">" -> "GT"
          [] c = ";" -> "SEMICOLON"
          [] c = "," -> "COMMA"
          [] c = "(" -> "LPAREN"
          [] c = ")" -> "RPAREN"
          [] c = "{" -> "LBRACE"
          [] OTHER -> "RBRACE"]

\* NextToken with the bug of not looking at the byte after "=" and "!"
NextToken_NoLookahead(l0) ==
    LET l == skipWhitespace(l0)
        c == l.char
    IN  CASE c = "=" -> [lexer |-> readChar(l), tok |-> newToken("ASSIGN", c)]
          [] c = "!" -> [lexer |-> readChar(l), tok |-> newToken("BANG", c)]
          [] c \in DOMAIN SingleChar ->
               [lexer |-> readChar(l), tok |-> newToken(SingleChar[c], c)]
          [] c = NUL ->
               [lexer |-> readChar(l), tok |-> Token("EOF", <<>>)]
          [] OTHER ->
               IF isLetter(c)
               THEN LET r == readIdentifier(l)
                    IN  [lexer |-> r.lexer,
                         tok |-> Token(LookupIdent(r.literal), r.literal)]
               ELSE IF isDigit(c)
               THEN LET r == readNumber(l)
                    IN  [lexer |-> r.lexer, tok |-> Token("INT", r.literal)]
               ELSE [lexer |-> readChar(l), tok |-> newToken("ILLEGAL", c)]

\* NextToken: the lexer after the call and the token returned
NextToken(l0) ==
    LET l == skipWhitespace(l0)
        c == l.char
    IN  CASE c = "=" ->
               IF peekChar(l) = "="
               THEN [lexer |-> readChar(readChar(l)),
                     tok |-> Token("EQ", <<"=", "=">>)]
               ELSE [lexer |-> readChar(l), tok |-> newToken("ASSIGN", c)]
          [] c = "!" ->
               IF peekChar(l) = "="
               THEN [lexer |-> readChar(readChar(l)),
                     tok |-> Token("NOT_EQ", <<"!", "=">>)]
               ELSE [lexer |-> readChar(l), tok |-> newToken("BANG", c)]
          [] c \in DOMAIN SingleChar ->
               [lexer |-> readChar(l), tok |-> newToken(SingleChar[c], c)]
          [] c = NUL ->
               [lexer |-> readChar(l), tok |-> Token("EOF", <<>>)]
          [] OTHER ->
               IF isLetter(c)
               THEN LET r == readIdentifier(l)
                    IN  [lexer |-> r.lexer,
                         tok |-> Token(LookupIdent(r.literal), r.literal)]
               ELSE IF isDigit(c)
               THEN LET r == readNumber(l)
                    IN  [lexer |-> r.lexer, tok |-> Token("INT", r.literal)]
               ELSE [lexer |-> readChar(l), tok |-> newToken("ILLEGAL", c)]

----------------------------------------------------------------------------
(* package ast: nodes and the pretty-printer.                              *)

\* the nil interface value (no node, no expression)
Nil == [kind |-> "nil"]

\* a nil *ast.LetStatement converted to the interface ast.Statement
NilLetStatement == [kind |-> "nilptr", type |-> "*ast.LetStatement"]

Program(statements) == [kind |-> "Program", Statements |-> statements]

Identifier(tok) == [kind |-> "Identifier", Token |-> tok, Value |-> tok.Literal]

RECURSIVE String(_)
RECURSIVE NilDeref(_)

RECURSIVE StringAll(_)
StringAll(nodes) ==
    IF nodes = <<>> THEN <<>> ELSE String(Head(nodes)) \o StringAll(Tail(nodes))

\* the elements printed with ", " between them
RECURSIVE StringList(_)
StringList(nodes) ==
    IF nodes = <<>> THEN <<>>
    ELSE IF Len(nodes) = 1 THEN String(nodes[1])
    ELSE String(Head(nodes)) \o <<",", " ">> \o StringList(Tail(nodes))

ProgramString(n) == StringAll(n.Statements)

ExpressionStatementString(n) ==
    IF n.Expression.kind # "nil" THEN String(n.Expression) ELSE <<>>

LetStatementString(n) ==
    n.Token.Literal \o <<" ">> \o String(n.Name) \o <<" ", "=", " ">>
    \o (IF n.Value.kind # "nil" THEN String(n.Value) ELSE <<>>) \o <<";">>

ReturnStatementString(n) ==
    n.Token.Literal \o <<" ">>
    \o (IF n.ReturnValue.kind # "nil" THEN String(n.ReturnValue) ELSE <<>>)
    \o <<";">>

\* PrefixExpression.String with the bug of leaving the parenthesis open
PrefixExpressionString_Unclosed(n) ==
    <<"(">> \o n.Operator \o String(n.Right)

PrefixExpressionString(n) ==
    <<"(">> \o n.Operator \o String(n.Right) \o <<")">>

InfixExpressionString(n) ==
    <<"(">> \o String(n.Left) \o <<" ">> \o n.Operator \o <<" ">>
    \o String(n.Right) \o <<")">>

\* IfExpression.String with the bug of leaving the alternative out
IfExpressionString_NoElse(n) ==
    <<"i", "f">> \o String(n.Condition) \o <<" ">> \o String(n.Consequence)

IfExpressionString(n) ==
    <<"i", "f">> \o String(n.Condition) \o <<" ">> \o String(n.Consequence)
    \o (IF n.Alternative.kind # "nil"
        THEN <<"e", "l", "s", "e", " ">> \o String(n.Alternative)
        ELSE <<>>)

BlockStatementString(n) == StringAll(n.Statements)

FunctionLiteralString(n) ==
    n.Token.Literal \o <<"(">> \o StringList(n.Parameters) \o <<")">>
    \o String(n.Body)

CallExpressionString(n) ==
    String(n.Function) \o <<"(">> \o StringList(n.Arguments) \o <<")">>

\* node.String(), for a node on which NilDeref is false
String(n) ==
    CASE n.kind = "Program" -> ProgramString(n)
      [] n.kind = "ExpressionStatement" -> ExpressionStatementString(n)
      [] n.kind = "LetStatement" -> LetStatementString(n)
      [] n.kind = "ReturnStatement" -> ReturnStatementString(n)
      [] n.kind = "Identifier" -> n.Value
      [] n.kind = "IntegerLiteral" -> n.Token.Literal
      [] n.kind = "Boolean" -> n.Token.Literal
      [] n.kind = "PrefixExpression" -> PrefixExpressionString(n)
      [] n.kind = "InfixExpression" -> InfixExpressionString(n)
      [] n.kind = "IfExpression" -> IfExpressionString(n)
      [] n.kind = "BlockStatement" -> BlockStatementString(n)
      [] n.kind = "FunctionLiteral" -> FunctionLiteralString(n)
      [] n.kind = "CallExpression" -> CallExpressionString(n)
      [] OTHER -> <<>>

\* the slots String() calls a method on without a nil check
Dereferenced(n) ==
    CASE n.kind = "LetStatement" -> <<n.Name>>
      [] n.kind = "PrefixExpression" -> <<n.Right>>
      [] n.kind = "InfixExpression" -> <<n.Left, n.Right>>
      [] n.kind = "IfExpression" -> <<n.Condition, n.Consequence>>
      [] n.kind = "FunctionLiteral" -> n.Parameters \o <<n.Body>>
      [] n.kind = "CallExpression" -> <<n.Function>> \o n.Arguments
      [] n.kind \in {"Program", "BlockStatement"} -> n.Statements
      [] OTHER -> <<>>

\* the slots String() prints only when they are not nil
Checked(n) ==
    CASE n.kind = "ExpressionStatement" -> <<n.Expression>>
      [] n.kind = "LetStatement" -> <<n.Value>>
      [] n.kind = "ReturnStatement" -> <<n.ReturnValue>>
      [] n.kind = "IfExpression" -> <<n.Alternative>>
      [] OTHER -> <<>>

\* node.String() dereferences a nil pointer or calls a method on a nil interface
NilDeref(n) ==
    \/ n.kind \in {"nil", "nilptr"}
    \/ \E i \in DOMAIN Dereferenced(n) : NilDeref(Dereferenced(n)[i])
    \/ \E i \in DOMAIN Checked(n) :
          Checked(n)[i].kind # "nil" /\ NilDeref(Checked(n)[i])

----------------------------------------------------------------------------
(* strconv.ParseInt(s, 0, 64) on a run of decimal digits.                  *)

DigitVal == [c \in Digits |->
    CASE c = "0" -> 0 [] c = "1" -> 1 [] c = "2" -> 2 [] c = "3" -> 3
      [] c = "4" -> 4 [] c = "5" -> 5 [] c = "6" -> 6 [] c = "7" -> 7
      [] c = "8" -> 8 [] OTHER -> 9]

RECURSIVE StripZeros(_)
StripZeros(ds) ==
    IF ds # <<>> /\ Head(ds) = "0" THEN StripZeros(Tail(ds)) ELSE ds

\* a <= b for two digit runs of the same length
RECURSIVE DigitsLeq(_, _)
DigitsLeq(a, b) ==
    \/ a = <<>>
    \/ DigitVal[Head(a)] < DigitVal[Head(b)]
    \/ DigitVal[Head(a)] = DigitVal[Head(b)] /\ DigitsLeq(Tail(a), Tail(b))

\* 1<<63 - 1 written in base 10 and in base 8
MaxInt64Digits(base) ==
    IF base = 10
    THEN <<"9","2","2","3","3","7","2","0","3","6","8","5","4","7","7","5",
           "8","0","7">>
    ELSE <<"7","7","7","7","7","7","7","7","7","7","7","7","7","7","7","7",
           "7","7","7","7","7">>

\* the range test of ParseInt, made on the digits: the value of a run that
\* passes it may still exceed what TLC's integers hold, so inputs stay short
InRange(ds, base) ==
    LET sig == StripZeros(ds)
        max == MaxInt64Digits(base)
    IN  \/ Len(sig) < Len(max)
        \/ Len(sig) = Len(max) /\ DigitsLeq(sig, max)

RECURSIVE DigitsValue(_, _, _)
DigitsValue(ds, base, n) ==
    IF ds = <<>> THEN n
    ELSE DigitsValue(Tail(ds), base, n * base + DigitVal[Head(ds)])

\* base 0: a leading "0" selects base 8 and is dropped, otherwise base 10
ParseIntBase(literal) == IF Head(literal) = "0" THEN 8 ELSE 10

ParseInt(literal) ==
    LET base == ParseIntBase(literal)
        ds == IF Head(literal) = "0" THEN Tail(literal) ELSE literal
    IN  IF \E i \in DOMAIN ds : DigitVal[ds[i]] >= base
        THEN [err |-> "syntax", value |-> 0]
        ELSE IF ~InRange(ds, base)
        THEN [err |-> "range", value |-> 0]
        ELSE [err |-> "nil", value |-> DigitsValue(ds, base, 0)]

----------------------------------------------------------------------------
(* package parser: precedences, tables and the token window.               *)

LOWEST == 1
EQUALS == 2
LESSGREATER == 3
SUM == 4
PRODUCT == 5
PREFIX == 6
CALL == 7

\* the table with "(" on the level of the prefix operators
precedences_CallIsPrefix ==
    [type \in {"EQ", "NOT_EQ", "LT", "GT", "PLUS", "MINUS", "SLASH",
                "ASTERISK", "LPAREN"} |->
        CASE type \in {"EQ", "NOT_EQ"} -> EQUALS
          [] type \in {"LT", "GT"} -> LESSGREATER
          [] type \in {"PLUS", "MINUS"} -> SUM
          [] type \in {"SLASH", "ASTERISK"} -> PRODUCT
          [] type = "LPAREN" -> PREFIX]

\* the table with SUM and PRODUCT on one level
precedences_SumIsProduct ==
    [type \in {"EQ", "NOT_EQ", "LT", "GT", "PLUS", "MINUS", "SLASH",
                "ASTERISK", "LPAREN"} |->
        CASE type \in {"EQ", "NOT_EQ"} -> EQUALS
          [] type \in {"LT", "GT"} -> LESSGREATER
          [] type \in {"PLUS", "MINUS", "SLASH", "ASTERISK"} -> SUM
          [] type = "LPAREN" -> CALL]

precedences ==
    [t \in {"EQ", "NOT_EQ", "LT", "GT", "PLUS", "MINUS", "SLASH", "ASTERISK",
            "LPAREN"} |->
        CASE t \in {"EQ", "NOT_EQ"} -> EQUALS
          [] t \in {"LT", "GT"} -> LESSGREATER
          [] t \in {"PLUS", "MINUS"} -> SUM
          [] t \in {"SLASH", "ASTERISK"} -> PRODUCT
          [] OTHER -> CALL]

\* the handler New registers for a kind in prefix position
prefixParseFns ==
    [t \in {"IDENT", "INT", "BANG", "MINUS", "TRUE", "FALSE", "LPAREN", "IF",
            "FUNCTION"} |->
        CASE t = "IDENT" -> "parseIdentifier"
          [] t = "INT" -> "parseIntegerLiteral"
          [] t \in {"BANG", "MINUS"} -> "parsePrefixExpression"
          [] t \in {"TRUE", "FALSE"} -> "parseBoolean"
          [] t = "LPAREN" -> "parseGroupedExpression"
          [] t = "IF" -> "parseIfExpression"
          [] OTHER -> "parseFunctionLiteral"]

\* the handler New registers for a kind in infix position
infixParseFns ==
    [t \in {"PLUS", "MINUS", "SLASH", "ASTERISK", "EQ", "NOT_EQ", "LT", "GT",
            "LPAREN"} |->
        IF t = "LPAREN" THEN "parseCallExpression" ELSE "parseInfixExpression"]

\* the parser's fields as one value
Parser == [lexer |-> lexer, errors |-> errors,
           currentToken |-> currentToken, peekToken |-> peekToken]

\* nextToken with the bug of filling peek before it moves peek to current
nextToken_PeekFirst(p) ==
    LET r == NextToken(p.lexer)
    IN  [p EXCEPT !.currentToken = r.tok,
                  !.peekToken = r.tok,
                  !.lexer = r.lexer]

nextToken(p) ==
    LET r == NextToken(p.lexer)
    IN  [p EXCEPT !.currentToken = p.peekToken,
                  !.peekToken = r.tok,
                  !.lexer = r.lexer]

ParserNew(l) ==
    nextToken(nextToken([lexer |-> l, errors |-> <<>>,
                         currentToken |-> Token("", <<>>),
                         peekToken |-> Token("", <<>>)]))

\* peekError with the bug of recording nothing
peekError_Silent(p, type) == p

peekError(p, type) ==
    [p EXCEPT !.errors = Append(@, [msg |-> "expected next token to be",
                                    want |-> type,
                                    got |-> p.peekToken.Type])]

\* noPrefixParseFnError with the bug of recording nothing
noPrefixParseFnError_Silent(p, type) == p

noPrefixParseFnError(p, type) ==
    [p EXCEPT !.errors = Append(@, [msg |-> "no prefix parse function for",
                                    type |-> type])]

currentTokenIs(p, type) == p.currentToken.Type = type

peekTokenIs(p, type) == p.peekToken.Type = type

\* expectPeek with the bug of reporting current for the token it rejects
expectPeek_ReportsCurrent(p, type) ==
    IF peekTokenIs(p, type)
    THEN [ok |-> TRUE, p |-> nextToken(p)]
    ELSE [ok |-> FALSE,
          p |-> [p EXCEPT !.errors =
                    Append(@, [msg |-> "expected next token to be",
                               want |-> type,
                               got |-> p.currentToken.Type])]]

\* expectPeek with the bug of advancing past the token it rejects
expectPeek_AdvancesOnFailure(p, type) ==
    IF peekTokenIs(p, type)
    THEN [ok |-> TRUE, p |-> nextToken(p)]
    ELSE [ok |-> FALSE, p |-> nextToken(peekError(p, type))]

expectPeek(p, type) ==
    IF peekTokenIs(p, type)
    THEN [ok |-> TRUE, p |-> nextToken(p)]
    ELSE [ok |-> FALSE, p |-> peekError(p, type)]

peekPrecedence(p) ==
    IF p.peekToken.Type \in DOMAIN precedences
    THEN precedences[p.peekToken.Type]
    ELSE LOWEST

\* currentPrecedence with the bug of handing the right operand one level less
currentPrecedence_OneLess(p) ==
    IF p.currentToken.Type \in DOMAIN precedences
    THEN precedences[p.currentToken.Type] - 1
    ELSE LOWEST

currentPrecedence(p) ==
    IF p.currentToken.Type \in DOMAIN precedences
    THEN precedences[p.currentToken.Type]
    ELSE LOWEST

\* the loop of parseFunctionParameters: while peek is a comma, advance twice
\* and take current as an identifier
RECURSIVE parameterLoop(_, _)
parameterLoop(p, identifiers) ==
    IF peekTokenIs(p, "COMMA")
    THEN LET p2 == nextToken(nextToken(p))
         IN  parameterLoop(p2, Append(identifiers, Identifier(p2.currentToken)))
    ELSE [p |-> p, identifiers |-> identifiers]

----------------------------------------------------------------------------
(* The call stack.                                                         *)

\* a call of fn about to start: node holds an argument or the node being
\* built, prec the precedence argument, items the list being built
Frame(fn) == [fn |-> fn, pc |-> "start", node |-> Nil, prec |-> 0, items |-> <<>>]

ExpressionFrame(precedence) == [Frame("parseExpression") EXCEPT !.prec = precedence]

Top == stack[Len(stack)]

Running(fn) ==
    /\ phase = "parse"
    /\ stack # <<>>
    /\ Top.fn = fn
    /\ Len(errors) < MaxErrors

SetParser(p) ==
    /\ lexer' = p.lexer
    /\ errors' = p.errors
    /\ currentToken' = p.currentToken
    /\ peekToken' = p.peekToken

\* the running call goes on as frame f and calls callee
Call(f, callee) ==
    /\ stack' = Append([stack EXCEPT ![Len(stack)] = f], callee)
    /\ ret' = Nil

\* the running call returns value to its caller
Return(value) ==
    /\ stack' = SubSeq(stack, 1, Len(stack) - 1)
    /\ ret' = value

\* the running call ends by calling callee and returning its result
TailCall(callee) ==
    /\ stack' = [stack EXCEPT ![Len(stack)] = callee]
    /\ ret' = Nil

ReplUnchanged == UNCHANGED <<stdin, out, history, phase, tokens, skipped>>

----------------------------------------------------------------------------
(* package parser: one action per function.                                *)

\* pc "start": the loop test; pc "statement": parseStatement has returned
ParseProgram ==
    /\ Running("ParseProgram")
    /\ LET f == Top
           back == f.pc = "statement"
           statements == IF back /\ ret.kind # "nil"
                         THEN Append(f.items, ret) ELSE f.items
           p == IF back THEN nextToken(Parser) ELSE Parser
       IN  /\ SetParser(p)
           /\ IF p.currentToken.Type # "EOF"
              THEN /\ Call([f EXCEPT !.pc = "statement", !.items = statements],
                           Frame("parseStatement"))
                   /\ UNCHANGED phase
              ELSE /\ stack' = <<>>
                   /\ ret' = Program(statements)
                   /\ phase' = "print"
    /\ UNCHANGED <<stdin, out, history, tokens, skipped>>

parseStatement ==
    /\ Running("parseStatement")
    /\ TailCall(Frame(CASE currentToken.Type = "LET" -> "parseLetStatement"
                        [] currentToken.Type = "RETURN" -> "parseReturnStatement"
                        [] OTHER -> "parseExpressionStatement"))
    /\ UNCHANGED <<lexer, errors, currentToken, peekToken>>
    /\ ReplUnchanged

\* the statement productions with the bug of leaving the semicolon unread
skipSemicolon_Never(p) == p

\* the optional semicolon that ends the three statement productions
skipSemicolon(p) == IF peekTokenIs(p, "SEMICOLON") THEN nextToken(p) ELSE p

parseLetStatement ==
    /\ Running("parseLetStatement")
    /\ LET f == Top
       IN  IF f.pc = "start"
           THEN LET e1 == expectPeek(Parser, "IDENT")
                    e2 == expectPeek(e1.p, "ASSIGN")
                    statement == [kind |-> "LetStatement", Token |-> currentToken,
                                  Name |-> Identifier(e1.p.currentToken),
                                  Value |-> Nil]
                IN  IF ~e1.ok
                    THEN SetParser(e1.p) /\ Return(NilLetStatement)
                    ELSE IF ~e2.ok
                    THEN SetParser(e2.p) /\ Return(NilLetStatement)
                    ELSE /\ SetParser(nextToken(e2.p))
                         /\ Call([f EXCEPT !.pc = "value", !.node = statement],
                                 ExpressionFrame(LOWEST))
           ELSE /\ SetParser(skipSemicolon(Parser))
                /\ Return([f.node EXCEPT !.Value = ret])
    /\ ReplUnchanged

parseReturnStatement ==
    /\ Running("parseReturnStatement")
    /\ LET f == Top
           statement == [kind |-> "ReturnStatement", Token |-> currentToken,
                         ReturnValue |-> Nil]
       IN  IF f.pc = "start"
           THEN /\ SetParser(nextToken(Parser))
                /\ Call([f EXCEPT !.pc = "value", !.node = statement],
                        ExpressionFrame(LOWEST))
           ELSE /\ SetParser(skipSemicolon(Parser))
                /\ Return([f.node EXCEPT !.ReturnValue = ret])
    /\ ReplUnchanged

parseExpressionStatement ==
    /\ Running("parseExpressionStatement")
    /\ LET f == Top
           statement == [kind |-> "ExpressionStatement", Token |-> currentToken,
                         Expression |-> Nil]
       IN  IF f.pc = "start"
           THEN /\ Call([f EXCEPT !.pc = "expression", !.node = statement],
                        ExpressionFrame(LOWEST))
                /\ UNCHANGED <<lexer, errors, currentToken, peekToken>>
           ELSE /\ SetParser(skipSemicolon(Parser))
                /\ Return([f.node EXCEPT !.Expression = ret])
    /\ ReplUnchanged

\* pc "start": the prefix dispatch; pc "left": a handler has returned left
parseExpression ==
    /\ Running("parseExpression")
    /\ LET f == Top
           type == currentToken.Type
       IN  IF f.pc = "start"
           THEN IF type \notin DOMAIN prefixParseFns
                THEN /\ SetParser(noPrefixParseFnError(Parser, type))
                     /\ Return(Nil)
                ELSE /\ Call([f EXCEPT !.pc = "left"], Frame(prefixParseFns[type]))
                     /\ UNCHANGED <<lexer, errors, currentToken, peekToken>>
           ELSE IF /\ ~peekTokenIs(Parser, "SEMICOLON")
                   /\ f.prec < peekPrecedence(Parser)
                THEN IF peekToken.Type \notin DOMAIN infixParseFns
                     THEN /\ Return(ret)
                          /\ UNCHANGED <<lexer, errors, currentToken, peekToken>>
                     ELSE /\ SetParser(nextToken(Parser))
                          /\ Call(f, [Frame(infixParseFns[peekToken.Type])
                                        EXCEPT !.node = ret])
                ELSE /\ Return(ret)
                     /\ UNCHANGED <<lexer, errors, currentToken, peekToken>>
    /\ ReplUnchanged

parseIdentifier ==
    /\ Running("parseIdentifier")
    /\ Return(Identifier(currentToken))
    /\ UNCHANGED <<lexer, errors, currentToken, peekToken>>
    /\ ReplUnchanged

parseIntegerLiteral ==
    /\ Running("parseIntegerLiteral")
    /\ LET r == ParseInt(currentToken.Literal)
       IN  IF r.err # "nil"
           THEN /\ errors' = Append(errors, [msg |-> "could not parse as integer",
                                             literal |-> currentToken.Literal])
                /\ Return(Nil)
           ELSE /\ Return([kind |-> "IntegerLiteral", Token |-> currentToken,
                           Value |-> r.value])
                /\ UNCHANGED errors
    /\ UNCHANGED <<lexer, currentToken, peekToken>>
    /\ ReplUnchanged

parseBoolean ==
    /\ Running("parseBoolean")
    /\ Return([kind |-> "Boolean", Token |-> currentToken,
               Value |-> currentTokenIs(Parser, "TRUE")])
    /\ UNCHANGED <<lexer, errors, currentToken, peekToken>>
    /\ ReplUnchanged

parsePrefixExpression ==
    /\ Running("parsePrefixExpression")
    /\ LET f == Top
           expression == [kind |-> "PrefixExpression", Token |-> currentToken,
                          Operator |-> currentToken.Literal, Right |-> Nil]
       IN  IF f.pc = "start"
           THEN /\ SetParser(nextToken(Parser))
                /\ Call([f EXCEPT !.pc = "right", !.node = expression],
                        ExpressionFrame(PREFIX))
           ELSE /\ Return([f.node EXCEPT !.Right = ret])
                /\ UNCHANGED <<lexer, errors, currentToken, peekToken>>
    /\ ReplUnchanged

\* the frame's node is the argument left
parseInfixExpression ==
    /\ Running("parseInfixExpression")
    /\ LET f == Top
           expression == [kind |-> "InfixExpression", Token |-> currentToken,
                          Left |-> f.node, Operator |-> currentToken.Literal,
                          Right |-> Nil]
           precedence == currentPrecedence(Parser)
       IN  IF f.pc = "start"
           THEN /\ SetParser(nextToken(Parser))
                /\ Call([f EXCEPT !.pc = "right", !.node = expression],
                        ExpressionFrame(precedence))
           ELSE /\ Return([f.node EXCEPT !.Right = ret])
                /\ UNCHANGED <<lexer, errors, currentToken, peekToken>>
    /\ ReplUnchanged

\* parseGroupedExpression with the bug of leaving the ")" unread
parseGroupedExpression_KeepsParen ==
    /\ Running("parseGroupedExpression")
    /\ IF Top.pc = "start"
       THEN /\ SetParser(nextToken(Parser))
            /\ Call([Top EXCEPT !.pc = "expression"], ExpressionFrame(LOWEST))
       ELSE /\ Return(ret)
            /\ UNCHANGED <<lexer, errors, currentToken, peekToken>>
    /\ ReplUnchanged

parseGroupedExpression ==
    /\ Running("parseGroupedExpression")
    /\ LET f == Top
           e == expectPeek(Parser, "RPAREN")
       IN  IF f.pc = "start"
           THEN /\ SetParser(nextToken(Parser))
                /\ Call([f EXCEPT !.pc = "expression"], ExpressionFrame(LOWEST))
           ELSE /\ SetParser(e.p)
                /\ Return(IF e.ok THEN ret ELSE Nil)
    /\ ReplUnchanged

parseIfExpression ==
    /\ Running("parseIfExpression")
    /\ LET f == Top
           expression == [kind |-> "IfExpression", Token |-> currentToken,
                          Condition |-> Nil, Consequence |-> Nil,
                          Alternative |-> Nil]
       IN  CASE f.pc = "start" ->
                  LET e == expectPeek(Parser, "LPAREN")
                  IN  IF ~e.ok
                      THEN SetParser(e.p) /\ Return(Nil)
                      ELSE /\ SetParser(nextToken(e.p))
                           /\ Call([f EXCEPT !.pc = "condition", !.node = expression],
                                   ExpressionFrame(LOWEST))
             [] f.pc = "condition" ->
                  LET e1 == expectPeek(Parser, "RPAREN")
                      e2 == expectPeek(e1.p, "LBRACE")
                  IN  IF ~e1.ok
                      THEN SetParser(e1.p) /\ Return(Nil)
                      ELSE IF ~e2.ok
                      THEN SetParser(e2.p) /\ Return(Nil)
                      ELSE /\ SetParser(e2.p)
                           /\ Call([f EXCEPT !.pc = "consequence",
                                             !.node.Condition = ret],
                                   Frame("parseBlockStatement"))
             [] f.pc = "consequence" ->
                  LET e == expectPeek(nextToken(Parser), "LBRACE")
                  IN  IF ~peekTokenIs(Parser, "ELSE")
                      THEN /\ Return([f.node EXCEPT !.Consequence = ret])
                           /\ UNCHANGED <<lexer, errors, currentToken, peekToken>>
                      ELSE IF ~e.ok
                      THEN SetParser(e.p) /\ Return(Nil)
                      ELSE /\ SetParser(e.p)
                           /\ Call([f EXCEPT !.pc = "alternative",
                                             !.node.Consequence = ret],
                                   Frame("parseBlockStatement"))
             [] OTHER ->
                  /\ Return([f.node EXCEPT !.Alternative = ret])
                  /\ UNCHANGED <<lexer, errors, currentToken, peekToken>>
    /\ ReplUnchanged

parseFunctionLiteral ==
    /\ Running("parseFunctionLiteral")
    /\ LET f == Top
           literal == [kind |-> "FunctionLiteral", Token |-> currentToken,
                       Parameters |-> <<>>, Body |-> Nil]
           e == expectPeek(Parser, IF f.pc = "start" THEN "LPAREN" ELSE "LBRACE")
       IN  CASE f.pc = "start" ->
                  IF ~e.ok
                  THEN SetParser(e.p) /\ Return(Nil)
                  ELSE /\ SetParser(e.p)
                       /\ Call([f EXCEPT !.pc = "parameters", !.node = literal],
                               Frame("parseFunctionParameters"))
             [] f.pc = "parameters" ->
                  IF ~e.ok
                  THEN SetParser(e.p) /\ Return(Nil)
                  ELSE /\ SetParser(e.p)
                       /\ Call([f EXCEPT !.pc = "body", !.node.Parameters = ret],
                               Frame("parseBlockStatement"))
             [] OTHER ->
                  /\ Return([f.node EXCEPT !.Body = ret])
                  /\ UNCHANGED <<lexer, errors, currentToken, peekToken>>
    /\ ReplUnchanged

\* pc "start": advance past the brace; pc "statement": parseStatement has
\* returned; then the loop test
parseBlockStatement ==
    /\ Running("parseBlockStatement")
    /\ LET f == Top
           back == f.pc = "statement"
           token == IF back THEN f.node.Token ELSE currentToken
           statements == IF back /\ ret.kind # "nil"
                         THEN Append(f.items, ret) ELSE f.items
           p == nextToken(Parser)
           block == [kind |-> "BlockStatement", Token |-> token,
                     Statements |-> statements]
       IN  /\ SetParser(p)
           /\ IF ~currentTokenIs(p, "RBRACE")
              THEN Call([f EXCEPT !.pc = "statement", !.node = block,
                                  !.items = statements],
                        Frame("parseStatement"))
              ELSE Return(block)
    /\ ReplUnchanged

\* a nil slice and an empty one are both <<>>: String() only ranges over them
parseFunctionParameters ==
    /\ Running("parseFunctionParameters")
    /\ LET p1 == nextToken(Parser)
           r == parameterLoop(p1, <<Identifier(p1.currentToken)>>)
           e == expectPeek(r.p, "RPAREN")
       IN  IF peekTokenIs(Parser, "RPAREN")
           THEN SetParser(p1) /\ Return(<<>>)
           ELSE IF ~e.ok
           THEN SetParser(e.p) /\ Return(<<>>)
           ELSE SetParser(e.p) /\ Return(r.identifiers)
    /\ ReplUnchanged

\* the frame's node is the argument function
parseCallExpression ==
    /\ Running("parseCallExpression")
    /\ LET f == Top
           expression == [kind |-> "CallExpression", Token |-> currentToken,
                          Function |-> f.node, Arguments |-> <<>>]
       IN  IF f.pc = "start"
           THEN Call([f EXCEPT !.pc = "arguments", !.node = expression],
                     Frame("parseCallArguments"))
           ELSE Return([f.node EXCEPT !.Arguments = ret])
    /\ UNCHANGED <<lexer, errors, currentToken, peekToken>>
    /\ ReplUnchanged

\* pc "start": the first argument; pc "argument": an argument has returned
parseCallArguments ==
    /\ Running("parseCallArguments")
    /\ LET f == Top
           arguments == Append(f.items, ret)
           e == expectPeek(Parser, "RPAREN")
       IN  IF f.pc = "start"
           THEN /\ SetParser(nextToken(Parser))
                /\ IF peekTokenIs(Parser, "RPAREN")
                   THEN Return(<<>>)
                   ELSE Call([f EXCEPT !.pc = "argument"], ExpressionFrame(LOWEST))
           ELSE IF peekTokenIs(Parser, "COMMA")
           THEN /\ SetParser(nextToken(nextToken(Parser)))
                /\ Call([f EXCEPT !.items = arguments], ExpressionFrame(LOWEST))
           ELSE /\ SetParser(e.p)
                /\ Return(IF e.ok THEN arguments ELSE <<>>)
    /\ ReplUnchanged

----------------------------------------------------------------------------
(* package repl.                                                           *)

Exit == <<"e", "x", "i", "t">>

\* what scanner.Text() gives for the next line: a line of stdin is a text, or
\* stands for the user typing back the program text the REPL just wrote
Text(entry) ==
    IF ~entry.echo THEN entry.text
    ELSE IF out # <<>> /\ out[Len(out)].kind = "program"
    THEN out[Len(out)].text
    ELSE <<>>

\* Start, from the prompt to the call of ParseProgram
StartRead ==
    /\ phase = "read"
    /\ IF stdin = <<>> \/ Text(Head(stdin)) \in {<<>>, Exit}
       THEN /\ phase' = "returned"
            /\ UNCHANGED <<stdin, lexer, errors, currentToken, peekToken, stack>>
       ELSE /\ phase' = "parse"
            /\ stdin' = Tail(stdin)
            /\ SetParser(ParserNew(LexerNew(Text(Head(stdin)))))
            /\ stack' = <<Frame("ParseProgram")>>
    /\ UNCHANGED <<out, history, ret, tokens, skipped>>

printParserErrors(errs) ==
    <<[kind |-> "text", text |-> "Parser errors:"]>>
    \o [i \in 1..Len(errs) |-> [kind |-> "error", msg |-> errs[i]]]

\* Start, from the return of ParseProgram to the next prompt
StartWrite ==
    /\ phase = "print"
    /\ history' = Append(history, [line |-> lexer.input, errors |-> errors,
                                   program |-> ret])
    /\ IF errors # <<>>
       THEN /\ out' = out \o printParserErrors(errors)
            /\ phase' = "read"
       ELSE IF NilDeref(ret)
       THEN /\ phase' = "panic"
            /\ UNCHANGED out
       ELSE /\ out' = Append(out, [kind |-> "program", text |-> String(ret)])
            /\ phase' = "read"
    /\ UNCHANGED <<stdin, lexer, errors, currentToken, peekToken, stack, ret,
                   tokens, skipped>>

----------------------------------------------------------------------------
(* A direct caller of the lexer: NextToken called MaxCalls times.          *)

LexNextToken ==
    /\ phase = "lex"
    /\ Len(tokens) < MaxCalls
    /\ LET r == NextToken(lexer)
       IN  /\ lexer' = r.lexer
           /\ tokens' = Append(tokens, r.tok)
           /\ skipped' = skipped + (skipWhitespace(lexer).position - lexer.position)
    /\ UNCHANGED <<stdin, out, history, phase, errors, currentToken, peekToken,
                   stack, ret>>

----------------------------------------------------------------------------
(* Inputs.                                                                 *)

\* the spelling of a lexeme written as one string
Spell ==
    [w \in {"let", "fn", "if", "else", "return", "true", "add", "10", "15",
            "==", "!="} |->
        CASE w = "let" -> <<"l", "e", "t">>
          [] w = "fn" -> <<"f", "n">>
          [] w = "if" -> <<"i", "f">>
          [] w = "else" -> <<"e", "l", "s", "e">>
          [] w = "return" -> <<"r", "e", "t", "u", "r", "n">>
          [] w = "true" -> <<"t", "r", "u", "e">>
          [] w = "add" -> <<"a", "d", "d">>
          [] w = "10" -> <<"1", "0">>
          [] w = "15" -> <<"1", "5">>
          [] w = "==" -> <<"=", "=">>
          [] OTHER -> <<"!", "=">>]

Lexeme(w) == IF w \in DOMAIN Spell THEN Spell[w] ELSE <<w>>

\* the lexemes of ws with one space between them
RECURSIVE Join(_)
Join(ws) ==
    IF ws = <<>> THEN <<>>
    ELSE IF Len(ws) = 1 THEN Lexeme(ws[1])
    ELSE Lexeme(Head(ws)) \o <<" ">> \o Join(Tail(ws))

SeqsUpTo(S, n) == UNION {[1..k -> S] : k \in 0..n}

Line(text) == [echo |-> FALSE, text |-> text]

EchoLine == [echo |-> TRUE, text |-> <<>>]

\* one input per production of the grammar
Scenarios ==
    {Join(<<"let", "x", "=", "5", ";">>),
     Join(<<"return", "true", ";">>),
     Join(<<"!", "5", ";", "-", "15", ";">>),
     Join(<<"if", "(", "x", "<", "y", ")", "{", "x", "}", "else", "{", "y", "}">>),
     Join(<<"fn", "(", "x", ",", "y", ")", "{", "x", "+", "y", ";", "}">>),
     Join(<<"add", "(", "1", ",", "2", "*", "3", ")", ";">>),
     Join(<<"(", "5", "+", "5", ")", "*", "2">>)}

\* the REPL started on the lines of in
ReplInit(in) ==
    /\ stdin \in in
    /\ out = <<>>
    /\ history = <<>>
    /\ phase = "read"
    /\ lexer = LexerNew(<<>>)
    /\ errors = <<>>
    /\ currentToken = Token("", <<>>)
    /\ peekToken = Token("", <<>>)
    /\ stack = <<>>
    /\ ret = Nil
    /\ tokens = <<>>
    /\ skipped = 0

Next ==
    \/ StartRead
    \/ ParseProgram
    \/ parseStatement
    \/ parseLetStatement
    \/ parseReturnStatement
    \/ parseExpressionStatement
    \/ parseExpression
    \/ parseIdentifier
    \/ parseIntegerLiteral
    \/ parseBoolean
    \/ parsePrefixExpression
    \/ parseInfixExpression
    \/ parseGroupedExpression
    \/ parseIfExpression
    \/ parseFunctionLiteral
    \/ parseBlockStatement
    \/ parseFunctionParameters
    \/ parseCallExpression
    \/ parseCallArguments
    \/ StartWrite

ScenarioInit == ReplInit({<<Line(t)>> : t \in Scenarios})

ScenarioSpec == ScenarioInit /\ [][Next]_vars

\* every input of at most MaxTokens lexemes over Alphabet
Alphabet == {"let", "x", "-", "fn", "(", ")", "{", "}"}

Sentences == {Join(ws) : ws \in SeqsUpTo(Alphabet, MaxTokens)}

Init == ReplInit({<<Line(t)>> : t \in Scenarios \cup Sentences})

Spec == Init /\ [][Next]_vars

----------------------------------------------------------------------------
(* The AST as a set of nodes.                                              *)

Children(n) == Dereferenced(n) \o Checked(n)

\* n and every node, nil ones included, reachable from it
RECURSIVE Nodes(_)
Nodes(n) == {n} \cup UNION {Nodes(Children(n)[i]) : i \in DOMAIN Children(n)}

\* ParseProgram has returned and Start has not yet written
Parsed == phase = "print"

----------------------------------------------------------------------------
(* C1: for every finite input ParseProgram terminates, and a block the     *)
(* input never closes ends at EOF.  Stated on the finite run that decides  *)
(* it: once current and peek are EOF and the lexer stands past its input,  *)
(* every later token is EOF, so a statement loop that starts one more pass *)
(* there starts the same pass for ever.  No statement loop does.           *)
AtEndOfInput ==
    /\ currentToken.Type = "EOF"
    /\ peekToken.Type = "EOF"
    /\ lexer.position >= Len(lexer.input)

C1_ParseProgramTerminates ==
    ~(phase = "parse" /\ stack # <<>> /\ Top.fn = "parseStatement" /\ AtEndOfInput)

(* C2: no node reachable from the Program lacks a slot that String         *)
(* dereferences without a check.                                           *)
C2_NoPartialNode ==
    Parsed =>
        \A n \in Nodes(ret) :
            n.kind \notin {"Program", "BlockStatement"} =>
                \A i \in DOMAIN Dereferenced(n) : Dereferenced(n)[i].kind # "nil"

(* C3: a failed let statement appends nothing: every element of            *)
(* Program.Statements and of every BlockStatement.Statements is a          *)
(* constructed statement node.                                             *)
C3_FailedLetAppendsNothing ==
    Parsed =>
        \A n \in Nodes(ret) :
            n.kind \in {"Program", "BlockStatement"} =>
                \A i \in DOMAIN n.Statements :
                    n.Statements[i].kind \notin {"nil", "nilptr"}

----------------------------------------------------------------------------
(* LetSpec: a let statement that fails, then what follows it; the second   *)
(* line of the session is what follows, given to a fresh parser.           *)

LetAlphabet == {"let", "y", "=", "5", ";"}

\* let x fails unless = follows; let fails unless an identifier follows
FailedLets ==
    {<<pre, rest>> \in {<<"let", "x">>, <<"let">>} \X SeqsUpTo(LetAlphabet, MaxRest) :
        \/ rest = <<>>
        \/ pre = <<"let", "x">> /\ rest[1] # "="
        \/ pre = <<"let">> /\ rest[1] # "y"}

LetInit ==
    ReplInit({<<Line(t)>> : t \in Scenarios}
             \cup {<<Line(Join(c[1] \o c[2])), Line(Join(c[2]))>> : c \in FailedLets})

LetSpec == LetInit /\ [][Next]_vars

\* line is a let statement failing at its first or second expectPeek,
\* followed by the lexemes of rest
FailedLetBefore(line, rest) ==
    \E pre \in {<<"let", "x">>, <<"let">>} : line = Join(pre) \o <<" ">> \o rest

\* the last n elements of s
Last(s, n) == SubSeq(s, Len(s) - n + 1, Len(s))

(* C4: a failed let statement records an error and does not stop the       *)
(* parse: ParseProgram goes on from the token after the point of failure,  *)
(* so the statements and the errors that follow are those a fresh parser   *)
(* finds in the rest of the input.                                         *)
C4_FailedLetContinues ==
    /\ \A i \in DOMAIN history :
           history[i].line \in {Join(<<"let", "x">>), Join(<<"let">>)} =>
               /\ Len(history[i].errors) = 1
               /\ history[i].errors[1].msg = "expected next token to be"
    /\ (Len(history) = 2 /\ FailedLetBefore(history[1].line, history[2].line)) =>
           LET first == history[1]
               rest == history[2]
               n == Len(rest.program.Statements)
           IN  /\ first.errors # <<>>
               /\ first.errors[1].msg = "expected next token to be"
               /\ Tail(first.errors) = rest.errors
               /\ Len(first.program.Statements) >= n
               /\ Last(first.program.Statements, n) = rest.program.Statements

\* `let x let y = 5`: an error, and the LetStatement named y is appended
C4_Witness ==
    /\ Len(history) = 2
    /\ FailedLetBefore(history[1].line, history[2].line)
    /\ history[2].errors = <<>>
    /\ history[1].errors # <<>>
    /\ LET statements == history[1].program.Statements
           last == statements[Len(statements)]
       IN  /\ last.kind = "LetStatement"
           /\ last.Name.Value = <<"y">>
           /\ last.Value.kind = "IntegerLiteral"

----------------------------------------------------------------------------
(* IntSpec: the inputs are digit runs.                                     *)

IntDigits == {"0", "1", "8"}

DigitRuns == UNION {[1..k -> IntDigits] : k \in 1..MaxDigits}

IntInit == ReplInit({<<Line(t)>> : t \in Scenarios \cup DigitRuns})

IntSpec == IntInit /\ [][Next]_vars

(* C5: the value of an IntegerLiteral is the base-10 value of its token's  *)
(* digit run, leading zeros included.                                      *)
C5_ValueIsBaseTen ==
    Parsed =>
        \A n \in Nodes(ret) :
            n.kind = "IntegerLiteral" => n.Value = DigitsValue(n.Token.Literal, 10, 0)

(* C6: "could not parse ... as integer" is recorded only for a digit run   *)
(* whose base-10 value does not fit a 64-bit signed integer.               *)
C6_ErrorOnlyOnOverflow ==
    \A i \in DOMAIN errors :
        errors[i].msg = "could not parse as integer" =>
            ~InRange(errors[i].literal, 10)

----------------------------------------------------------------------------
(* LexSpec: NextToken called again and again on one input.                 *)

LexBytes == {"=", "!", "a", "1", " ", "@", NUL}

LexInit ==
    /\ \E input \in SeqsUpTo(LexBytes, MaxInput) : lexer = LexerNew(input)
    /\ phase = "lex"
    /\ tokens = <<>>
    /\ skipped = 0
    /\ stdin = <<>>
    /\ out = <<>>
    /\ history = <<>>
    /\ errors = <<>>
    /\ currentToken = Token("", <<>>)
    /\ peekToken = Token("", <<>>)
    /\ stack = <<>>
    /\ ret = Nil

LexNext == LexNextToken

LexSpec == LexInit /\ [][LexNext]_vars

EOFToken == Token("EOF", <<>>)

(* C7: on every input, a 0 byte inside it included, repeated NextToken     *)
(* returns EOF after at most one call per input byte and one more, and     *)
(* every call after one that returned EOF returns EOF with an empty        *)
(* literal.                                                                *)
C7_EOFForEver ==
    /\ Len(tokens) > Len(lexer.input) => \E i \in DOMAIN tokens : tokens[i] = EOFToken
    /\ \A i, j \in DOMAIN tokens :
           (i < j /\ tokens[i].Type = "EOF") => tokens[j] = EOFToken

RECURSIVE LiteralLengths(_)
LiteralLengths(toks) ==
    IF toks = <<>> THEN 0 ELSE Len(Head(toks).Literal) + LiteralLengths(Tail(toks))

\* the call that has just returned is the first to return EOF
FirstEOF ==
    /\ tokens # <<>>
    /\ \A i \in DOMAIN tokens : tokens[i].Type = "EOF" <=> i = Len(tokens)

(* C8: when NextToken first returns EOF, the literal lengths of the tokens *)
(* returned plus the whitespace bytes skipped add up to the length of the  *)
(* input.                                                                  *)
C8_EveryByteCounted ==
    FirstEOF => LiteralLengths(tokens) + skipped = Len(lexer.input)

----------------------------------------------------------------------------
(* RoundTripSpec: an expression is parsed and printed, and the text        *)
(* printed is typed back as the next line.                                 *)

\* one expression per production, around the expression e
Forms(e) ==
    {<<"-">> \o e,
     <<"!">> \o e,
     e \o <<" ", "+", " ", "x">>,
     e \o <<" ", "=", "=", " ", "5">>,
     <<"x", " ", "*", " ">> \o e,
     <<"(">> \o e \o <<")">>,
     <<"i", "f", " ", "(", "x", ")", " ", "{", " ">> \o e \o <<" ", "}">>,
     <<"i", "f", " ", "(">> \o e
        \o <<")", " ", "{", " ", "x", " ", "}", " ", "e", "l", "s", "e", " ",
             "{", " ", "5", " ", "}">>,
     <<"f", "n", "(", "x", ")", " ", "{", " ">> \o e \o <<" ", "}">>,
     e \o <<"(", ")">>,
     e \o <<"(", "x", ")">>,
     <<"x", "(">> \o e \o <<",", " ", "5", ")">>}

RECURSIVE Expressions(_)
Expressions(depth) ==
    {<<"x">>, <<"5">>, <<"t", "r", "u", "e">>}
    \cup (IF depth = 0 THEN {}
          ELSE UNION {Forms(e) : e \in Expressions(depth - 1)})

RoundTripInit ==
    ReplInit({<<Line(t)>> : t \in Scenarios}
             \cup {<<Line(e), EchoLine>> : e \in Expressions(MaxDepth)})

RoundTripSpec == RoundTripInit /\ [][Next]_vars

\* the first line parsed with no errors to one expression statement, and the
\* second line is the text printed for it
RoundTrip ==
    /\ Len(history) = 2
    /\ history[1].errors = <<>>
    /\ Len(history[1].program.Statements) = 1
    /\ history[1].program.Statements[1].kind = "ExpressionStatement"
    /\ history[2].line = String(history[1].program)

RoundTripHolds ==
    /\ history[2].errors = <<>>
    /\ String(history[2].program) = String(history[1].program)

(* C9: for every expression that parses as one expression statement with   *)
(* no errors, parsing the text printed for it records no errors and prints *)
(* the same text.                                                          *)
C9_RoundTrip == RoundTrip => RoundTripHolds

(* C9 as amended: the same, for an expression whose tree holds no          *)
(* IfExpression and no FunctionLiteral.                                    *)
C9_RoundTripWithoutIfAndFn ==
    (/\ RoundTrip
     /\ \A n \in Nodes(history[1].program) :
            n.kind \notin {"IfExpression", "FunctionLiteral"})
        => RoundTripHolds

\* a call with an infix expression for its first argument came back
C9_Witness ==
    /\ RoundTrip
    /\ RoundTripHolds
    /\ \E n \in Nodes(history[1].program) :
          /\ n.kind = "CallExpression"
          /\ Len(n.Arguments) = 2
          /\ n.Arguments[1].kind = "InfixExpression"

----------------------------------------------------------------------------
(* PrecedenceSpec: chains of binary operators over the operands a, b, c,   *)
(* and prefix operators before an operand.                                 *)

BinaryOperators == {"==", "!=", "<", ">", "+", "-", "*", "/"}
PrefixOperators == {"-", "!"}
Operands == <<"a", "b", "c", "d", "e">>

\* a op[1] b op[2] c ...
Chain(ops) ==
    Join([i \in 1..(2 * Len(ops) + 1) |->
            IF i % 2 = 1 THEN Operands[(i + 1) \div 2] ELSE ops[i \div 2]])

Chains == {Chain(ops) : ops \in SeqsUpTo(BinaryOperators, MaxOps)}

PrefixLines ==
    {Join(<<p, "a", op, "b">>) : p \in PrefixOperators, op \in BinaryOperators}
    \cup {Join(<<p, q, "a">>) : p, q \in PrefixOperators}

PrecedenceInit ==
    ReplInit({<<Line(t)>> : t \in Scenarios \cup Chains \cup PrefixLines})

PrecedenceSpec == PrecedenceInit /\ [][Next]_vars

\* the levels as the claim states them
Level(op) ==
    CASE op \in {"==", "!="} -> 1
      [] op \in {"<", ">"}   -> 2
      [] op \in {"+", "-"}   -> 3
      [] op \in {"*", "/"}   -> 4

Paren(text) == <<"(">> \o text \o <<")">>
Binary(left, op, right) == Paren(left \o <<" ">> \o Lexeme(op) \o <<" ">> \o right)
Unary(op, right) == Paren(Lexeme(op) \o right)

\* the line was parsed with no errors and this is the text printed for it
Prints(line, text) ==
    \E i \in DOMAIN history :
        /\ history[i].line = line
        /\ history[i].errors = <<>>
        /\ String(history[i].program) = text

Answered(line) == \E i \in DOMAIN history : history[i].line = line

(* C10: when op2 is of a strictly higher level than op1, `a op1 b op2 c`   *)
(* prints as (a op1 (b op2 c)) and `a op2 b op1 c` as ((a op2 b) op1 c);   *)
(* a prefix operator binds tighter than every binary operator: `p a op b`  *)
(* prints as ((pa) op b) and `p q a` as (p(qa)).                           *)
C10_Precedence ==
    /\ \A op1, op2 \in BinaryOperators :
          Level(op1) < Level(op2) =>
              /\ Answered(Chain(<<op1, op2>>)) =>
                    Prints(Chain(<<op1, op2>>),
                           Binary(<<"a">>, op1, Binary(<<"b">>, op2, <<"c">>)))
              /\ Answered(Chain(<<op2, op1>>)) =>
                    Prints(Chain(<<op2, op1>>),
                           Binary(Binary(<<"a">>, op2, <<"b">>), op1, <<"c">>))
    /\ \A p \in PrefixOperators :
          /\ \A op \in BinaryOperators :
                Answered(Join(<<p, "a", op, "b">>)) =>
                    Prints(Join(<<p, "a", op, "b">>),
                           Binary(Unary(p, <<"a">>), op, <<"b">>))
          /\ \A q \in PrefixOperators :
                Answered(Join(<<p, q, "a">>)) =>
                    Prints(Join(<<p, q, "a">>), Unary(p, Unary(q, <<"a">>)))

\* a + b * c has been parsed and printed
C10_Witness ==
    /\ history # <<>>
    /\ history[1].line = Chain(<<"+", "*">>)
    /\ history[1].errors = <<>>
    /\ history[1].program.Statements[1].Expression.Right.kind = "InfixExpression"

----------------------------------------------------------------------------
(* Chains of operators of one level, under PrecedenceSpec.                 *)

\* the words of text, which one space separates
RECURSIVE Words(_)
Words(text) ==
    IF \A i \in DOMAIN text : text[i] # " " THEN <<text>>
    ELSE LET i == CHOOSE i \in DOMAIN text :
                      text[i] = " " /\ \A j \in 1..(i - 1) : text[j] # " "
         IN  <<SubSeq(text, 1, i - 1)>> \o Words(SubSeq(text, i + 1, Len(text)))

OperatorLexemes == {Lexeme(op) : op \in BinaryOperators}

LevelOf(word) == Level(CHOOSE op \in BinaryOperators : Lexeme(op) = word)

\* ws is a op b op c ...: the operands in order, with at least two operators
IsChain(ws) ==
    /\ Len(ws) % 2 = 1
    /\ Len(ws) >= 5
    /\ Len(ws) <= 2 * Len(Operands) - 1
    /\ \A i \in DOMAIN ws :
          IF i % 2 = 1 THEN ws[i] = <<Operands[(i + 1) \div 2]>>
          ELSE ws[i] \in OperatorLexemes

\* the first k words of ws nested entirely to the left
RECURSIVE NestLeft(_, _)
NestLeft(ws, k) ==
    IF k = 1 THEN ws[1]
    ELSE Paren(NestLeft(ws, k - 2) \o <<" ">> \o ws[k - 1] \o <<" ">> \o ws[k])

(* C11: a chain `a op b op c ...` of binary operators that are all of one  *)
(* level parses with no errors and prints nested entirely to the left:     *)
(* ((a op1 b) op2 c), (((a op1 b) op2 c) op3 d).                           *)
C11_LeftAssociative ==
    \A i \in DOMAIN history :
        LET ws == Words(history[i].line)
        IN  (/\ IsChain(ws)
             /\ \A j, k \in DOMAIN ws :
                   (j % 2 = 0 /\ k % 2 = 0) => LevelOf(ws[j]) = LevelOf(ws[k]))
            => /\ history[i].errors = <<>>
               /\ String(history[i].program) = NestLeft(ws, Len(ws))

\* a - b + c - d has been parsed and printed
C11_Witness ==
    /\ history # <<>>
    /\ history[1].line = Chain(<<"-", "+", "-">>)
    /\ history[1].errors = <<>>
    /\ history[1].program.Statements[1].Expression.Left.Left.kind = "InfixExpression"

----------------------------------------------------------------------------
(* GroupSpec: one operand pair in parentheses, and an expression typed     *)
(* first bare and then in parentheses.                                     *)

GroupLeft(op1, op2) == Join(<<"(", "a", op1, "b", ")", op2, "c">>)
GroupRight(op1, op2) == Join(<<"a", op1, "(", "b", op2, "c", ")">>)

Grouped(text) == <<"(">> \o text \o <<")">>

GroupedExpressions ==
    {Chain(ops) : ops \in SeqsUpTo(BinaryOperators, MaxGroupOps)}
    \cup PrefixLines \cup Expressions(1)

GroupInit ==
    ReplInit({<<Line(GroupLeft(op1, op2))>> : op1, op2 \in BinaryOperators}
             \cup {<<Line(GroupRight(op1, op2))>> : op1, op2 \in BinaryOperators}
             \cup {<<Line(e), Line(Grouped(e))>> : e \in GroupedExpressions}
             \cup {<<Line(t)>> : t \in Scenarios})

GroupSpec == GroupInit /\ [][Next]_vars

\* the first line parsed with no errors to one expression statement and the
\* second line is the first in parentheses
BareThenGrouped ==
    /\ Len(history) = 2
    /\ history[1].errors = <<>>
    /\ Len(history[1].program.Statements) = 1
    /\ history[1].program.Statements[1].kind = "ExpressionStatement"
    /\ history[2].line = Grouped(history[1].line)

(* C12: for any binary operators op1 and op2, `(a op1 b) op2 c` prints as  *)
(* ((a op1 b) op2 c) and `a op1 (b op2 c)` as (a op1 (b op2 c)); and `(e)` *)
(* parses to the expression e parses to, with no node for the parentheses, *)
(* so that it prints exactly as e does.                                    *)
C12_Grouping ==
    /\ \A op1, op2 \in BinaryOperators :
          /\ Answered(GroupLeft(op1, op2)) =>
                Prints(GroupLeft(op1, op2),
                       Binary(Binary(<<"a">>, op1, <<"b">>), op2, <<"c">>))
          /\ Answered(GroupRight(op1, op2)) =>
                Prints(GroupRight(op1, op2),
                       Binary(<<"a">>, op1, Binary(<<"b">>, op2, <<"c">>)))
    /\ BareThenGrouped =>
          /\ history[2].errors = <<>>
          /\ history[2].program.Statements[1].Expression
                = history[1].program.Statements[1].Expression
          /\ String(history[2].program) = String(history[1].program)

\* ( a + b ) * c has been printed with the sum as the left operand
C12_Witness ==
    /\ Prints(GroupLeft("+", "*"),
              Binary(Binary(<<"a">>, "+", <<"b">>), "*", <<"c">>))
    /\ history[1].program.Statements[1].Expression.Left.kind = "InfixExpression"

----------------------------------------------------------------------------
(* CallSpec: calls of f with up to MaxArgs arguments, and calls beside     *)
(* prefix and binary operators.                                            *)

\* an argument as typed, word by word, and the text it prints as
ArgumentForms ==
    {[words |-> <<"a">>, prints |-> <<"a">>],
     [words |-> <<"2", "*", "3">>, prints |-> Binary(<<"2">>, "*", <<"3">>)],
     [words |-> <<"-", "b">>, prints |-> Unary("-", <<"b">>)],
     [words |-> <<"a", "+", "b", "*", "c">>,
      prints |-> Binary(<<"a">>, "+", Binary(<<"b">>, "*", <<"c">>))]}

RECURSIVE ArgumentWords(_)
ArgumentWords(args) ==
    IF args = <<>> THEN <<>>
    ELSE IF Len(args) = 1 THEN args[1].words
    ELSE args[1].words \o <<",">> \o ArgumentWords(Tail(args))

RECURSIVE ArgumentPrints(_)
ArgumentPrints(args) ==
    IF args = <<>> THEN <<>>
    ELSE IF Len(args) = 1 THEN args[1].prints
    ELSE args[1].prints \o <<",", " ">> \o ArgumentPrints(Tail(args))

CallLine(args) == Join(<<"f", "(">> \o ArgumentWords(args) \o <<")">>)

CallInOperand(op) == Join(<<"a", op, "f", "(", "b", ")", op, "c">>)
CallAfterPrefix(p) == Join(<<p, "f", "(", "x", ")">>)
CallOfAdd == Join(<<"add", "(", "1", ",", "2", "*", "3", ",", "4", "+", "5", ")">>)
CallBetween == Join(<<"a", "+", "add", "(", "b", ")", "*", "c">>)

CallInit ==
    ReplInit({<<Line(CallLine(args))>> : args \in SeqsUpTo(ArgumentForms, MaxArgs)}
             \cup {<<Line(CallInOperand(op))>> : op \in BinaryOperators}
             \cup {<<Line(CallAfterPrefix(p))>> : p \in PrefixOperators}
             \cup {<<Line(CallOfAdd)>>, <<Line(CallBetween)>>}
             \cup {<<Line(t)>> : t \in Scenarios})

CallSpec == CallInit /\ [][Next]_vars

\* the call f(b) as it prints
CallOfB == <<"f", "(", "b", ")">>

----------------------------------------------------------------------------
(* FormSpec: conditionals with and without else, and function literals     *)
(* with up to MaxParams parameters.                                        *)

\* a condition as typed, word by word, and the text it prints as
ConditionForms ==
    {[words |-> <<"x">>, prints |-> <<"x">>],
     [words |-> <<"x", "<", "y">>, prints |-> Binary(<<"x">>, "<", <<"y">>)],
     [words |-> <<"!", "x">>, prints |-> Unary("!", <<"x">>)]}

\* the statements of a block as typed, their number, and the text the block
\* prints as
BlockForms ==
    {[words |-> <<>>, count |-> 0, prints |-> <<>>],
     [words |-> <<"x">>, count |-> 1, prints |-> <<"x">>],
     [words |-> <<"x", "+", "y", ";">>, count |-> 1,
      prints |-> Binary(<<"x">>, "+", <<"y">>)],
     [words |-> <<"return", "x", ";">>, count |-> 1,
      prints |-> Lexeme("return") \o <<" ", "x", ";">>],
     [words |-> <<"let", "a", "=", "5", ";", "a">>, count |-> 2,
      prints |-> Lexeme("let") \o <<" ", "a", " ", "=", " ", "5", ";", "a">>]}

ParameterNames == {"x", "y", "z"}

RECURSIVE Commas(_)
Commas(ws) ==
    IF Len(ws) <= 1 THEN ws ELSE <<ws[1], ",">> \o Commas(Tail(ws))

RECURSIVE CommaSpaces(_)
CommaSpaces(ws) ==
    IF ws = <<>> THEN <<>>
    ELSE IF Len(ws) = 1 THEN Lexeme(ws[1])
    ELSE Lexeme(ws[1]) \o <<",", " ">> \o CommaSpaces(Tail(ws))

IfLine(c, s1) ==
    Join(<<"if", "(">> \o c.words \o <<")", "{">> \o s1.words \o <<"}">>)

IfElseLine(c, s1, s2) ==
    Join(<<"if", "(">> \o c.words \o <<")", "{">> \o s1.words
         \o <<"}", "else", "{">> \o s2.words \o <<"}">>)

FnLine(params, body) ==
    Join(<<"fn", "(">> \o Commas(params) \o <<")", "{">> \o body.words \o <<"}">>)

FormInit ==
    ReplInit({<<Line(IfLine(c, s1))>> : c \in ConditionForms, s1 \in BlockForms}
             \cup {<<Line(IfElseLine(c, s1, s2))>> :
                      c \in ConditionForms, s1 \in BlockForms, s2 \in BlockForms}
             \cup {<<Line(FnLine(params, body))>> :
                      params \in SeqsUpTo(ParameterNames, MaxParams),
                      body \in BlockForms}
             \cup {<<Line(t)>> : t \in Scenarios})

FormSpec == FormInit /\ [][Next]_vars

\* entry is the parse, with no errors, of one expression statement
OneExpression(entry) ==
    /\ entry.errors = <<>>
    /\ Len(entry.program.Statements) = 1
    /\ entry.program.Statements[1].kind = "ExpressionStatement"

(* C14: `if (c) { s1 } else { s2 }` parses with no errors to one           *)
(* IfExpression that prints if + String(c) + " " + String(s1) + "else " +  *)
(* String(s2); without else the alternative is absent and nothing is       *)
(* appended; `fn(p1, ..., pn) { body }` parses to one FunctionLiteral with *)
(* its n parameters in source order that prints fn(p1, ..., pn) +          *)
(* String(body).                                                           *)
C14_IfAndFnForms ==
    \A i \in DOMAIN history :
        LET entry == history[i]
            node == entry.program.Statements[1].Expression
        IN  /\ \A c \in ConditionForms, s1 \in BlockForms :
                  /\ entry.line = IfLine(c, s1) =>
                        /\ OneExpression(entry)
                        /\ node.kind = "IfExpression"
                        /\ String(node.Condition) = c.prints
                        /\ Len(node.Consequence.Statements) = s1.count
                        /\ node.Alternative = Nil
                        /\ String(entry.program)
                              = <<"i", "f">> \o c.prints \o <<" ">> \o s1.prints
                  /\ \A s2 \in BlockForms :
                        entry.line = IfElseLine(c, s1, s2) =>
                            /\ OneExpression(entry)
                            /\ node.kind = "IfExpression"
                            /\ Len(node.Consequence.Statements) = s1.count
                            /\ node.Alternative.kind = "BlockStatement"
                            /\ Len(node.Alternative.Statements) = s2.count
                            /\ String(entry.program)
                                  = <<"i", "f">> \o c.prints \o <<" ">> \o s1.prints
                                      \o <<"e", "l", "s", "e", " ">> \o s2.prints
            /\ \A params \in SeqsUpTo(ParameterNames, MaxParams),
                  body \in BlockForms :
                  entry.line = FnLine(params, body) =>
                      /\ OneExpression(entry)
                      /\ node.kind = "FunctionLiteral"
                      /\ Len(node.Parameters) = Len(params)
                      /\ \A k \in DOMAIN params :
                            /\ node.Parameters[k].kind = "Identifier"
                            /\ node.Parameters[k].Value = <<params[k]>>
                      /\ Len(node.Body.Statements) = body.count
                      /\ String(entry.program)
                            = <<"f", "n", "(">> \o CommaSpaces(params) \o <<")">>
                                \o body.prints

\* if (x < y) { x + y; } else { return x; } has been parsed and printed
C14_Witness ==
    /\ history # <<>>
    /\ history[1].line
          = Join(<<"if", "(", "x", "<", "y", ")", "{", "x", "+", "y", ";", "}",
                   "else", "{", "return", "x", ";", "}">>)
    /\ history[1].errors = <<>>
    /\ String(history[1].program)
          = <<"i", "f">> \o Binary(<<"x">>, "<", <<"y">>) \o <<" ">>
              \o Binary(<<"x">>, "+", <<"y">>) \o <<"e", "l", "s", "e", " ">>
              \o Lexeme("return") \o <<" ", "x", ";">>

\* fn(y, x) { x + y; } has been parsed and printed
C14_WitnessFn ==
    /\ history # <<>>
    /\ history[1].line
          = Join(<<"fn", "(", "y", ",", "x", ")", "{", "x", "+", "y", ";", "}">>)
    /\ String(history[1].program)
          = <<"f", "n", "(", "y", ",", " ", "x", ")">>
              \o Binary(<<"x">>, "+", <<"y">>)

----------------------------------------------------------------------------
(* SessionSpec: sessions of up to three lines, with lines that parse, lines *)
(* that record errors, a line that opens a block and never closes it, and  *)
(* empty and exit lines in the middle.                                     *)

SessionLines ==
    {Join(<<"x">>),
     Join(<<"let", "x", "=", "5", ";">>),
     Join(<<"let", "x", "5">>),
     Join(<<"-">>),
     Join(<<"(", "x">>),
     Join(<<"fn", "(", ")", "{">>)}

Sessions ==
    {<<Line(a), Line(b), Line(a)>> : a, b \in SessionLines}
    \cup {<<Line(a), Line(stop), Line(b)>> :
             a, b \in SessionLines, stop \in {<<>>, Exit}}
    \cup {<<Line(t)>> : t \in Scenarios}

SessionInit == ReplInit(Sessions)

SessionSpec == SessionInit /\ [][Next]_vars

\* what the claim has the REPL write for one line
OutputFor(entry) ==
    IF entry.errors # <<>>
    THEN <<[kind |-> "text", text |-> "Parser errors:"]>>
         \o [k \in 1..Len(entry.errors) |->
                [kind |-> "error", msg |-> entry.errors[k]]]
    ELSE <<[kind |-> "program", text |-> String(entry.program)]>>

RECURSIVE OutputsFor(_)
OutputsFor(entries) ==
    IF entries = <<>> THEN <<>>
    ELSE OutputFor(Head(entries)) \o OutputsFor(Tail(entries))

\* what has been written is one output per line answered, in order
OneOutputPerLine == out = OutputsFor(history)

\* a line typed twice in a session is answered twice the same
FreshParserPerLine ==
    \A i, j \in DOMAIN history :
        history[i].line = history[j].line =>
            /\ history[i].errors = history[j].errors
            /\ history[i].program = history[j].program

\* Start returns at the end of input, at an empty line and at exit, and only
\* there; no such line is parsed
ReturnsAtExit ==
    /\ phase = "returned" =>
          stdin = <<>> \/ Head(stdin).text \in {<<>>, Exit}
    /\ \A i \in DOMAIN history : history[i].line \notin {<<>>, Exit}

ReplSafety == OneOutputPerLine /\ FreshParserPerLine /\ ReturnsAtExit

\* the parse of the line is in a block with the input at its end: current
\* stays EOF, the loop of parseBlockStatement waits for "}", and ParseProgram
\* never returns to Start
InBlockAtEndOfInput ==
    /\ phase = "parse"
    /\ AtEndOfInput
    /\ \E k \in DOMAIN stack : stack[k].fn = "parseBlockStatement"

(* C15: every line read that is neither empty nor exit is answered before  *)
(* the next prompt with exactly one output, the errors in recorded order   *)
(* under "Parser errors:" when there are errors and the program's String   *)
(* otherwise; the parser of a line starts fresh; Start returns at the end  *)
(* of input, at an empty line and at exit and writes nothing more.         *)
C15_ReplLoop == ReplSafety /\ ~InBlockAtEndOfInput

----------------------------------------------------------------------------
(* SemicolonSpec: a line, and then the same line with ";" after it.        *)

SemicolonAlphabet == {"let", "return", "x", "=", ";"}

SemicolonLines ==
    {Join(ws) : ws \in SeqsUpTo(SemicolonAlphabet, MaxWords)}
    \cup {<<" ">>}
    \cup Expressions(1)
    \cup {Chain(ops) : ops \in SeqsUpTo(BinaryOperators, 1)}

SemicolonInit ==
    ReplInit({<<Line(t), Line(t \o <<";">>)>> : t \in SemicolonLines}
             \cup {<<Line(t)>> : t \in Scenarios})

SemicolonSpec == SemicolonInit /\ [][Next]_vars

\* the first line is not empty, does not end in ";" and parsed with no errors
ParsedWithoutSemicolon ==
    /\ history # <<>>
    /\ history[1].line # <<>>
    /\ history[1].line[Len(history[1].line)] # ";"
    /\ history[1].errors = <<>>

\* the second line, the first with ";" after it, is parsed and ParseProgram
\* returns with no errors and a Program that prints as the first
SameWithSemicolon ==
    /\ (phase = "parse" /\ Len(history) = 1
            /\ lexer.input = history[1].line \o <<";">>)
          => ~InBlockAtEndOfInput
    /\ (Len(history) = 2 /\ history[2].line = history[1].line \o <<";">>)
          => /\ history[2].errors = <<>>
             /\ String(history[2].program) = String(history[1].program)

----------------------------------------------------------------------------
(* IdentSpec: NextToken called on inputs of letters, an underscore, a      *)
(* digit and a space, and on the keywords alone and with a letter or a     *)
(* digit after them.                                                       *)

IdentBytes == {"l", "e", "t", "i", "f", "x", "_", "1", " "}

KeywordSpellings ==
    {<<"f", "n">>, <<"l", "e", "t">>, <<"t", "r", "u", "e">>,
     <<"f", "a", "l", "s", "e">>, <<"i", "f">>, <<"e", "l", "s", "e">>,
     <<"r", "e", "t", "u", "r", "n">>}

IdentInputs ==
    SeqsUpTo(IdentBytes, MaxIdent)
    \cup KeywordSpellings
    \cup {k \o <<c>> : k \in KeywordSpellings, c \in {"x", "1", "_", " ", "("}}
    \cup {<<"L", "e", "t">>, <<"I", "F">>, <<"f", "o", "o", "1">>}

IdentInit ==
    /\ \E input \in IdentInputs : lexer = LexerNew(input)
    /\ phase = "lex"
    /\ tokens = <<>>
    /\ skipped = 0
    /\ stdin = <<>>
    /\ out = <<>>
    /\ history = <<>>
    /\ errors = <<>>
    /\ currentToken = Token("", <<>>)
    /\ peekToken = Token("", <<>>)
    /\ stack = <<>>
    /\ ret = Nil

IdentSpec == IdentInit /\ [][LexNext]_vars

\* the kind the claim gives a run of letters
KindOfRun(run) ==
    CASE run = <<"f", "n">> -> "FUNCTION"
      [] run = <<"l", "e", "t">> -> "LET"
      [] run = <<"t", "r", "u", "e">> -> "TRUE"
      [] run = <<"f", "a", "l", "s", "e">> -> "FALSE"
      [] run = <<"i", "f">> -> "IF"
      [] run = <<"e", "l", "s", "e">> -> "ELSE"
      [] run = <<"r", "e", "t", "u", "r", "n">> -> "RETURN"
      [] OTHER -> "IDENT"

Least(S) == CHOOSE i \in S : \A j \in S : i <= j

\* the index in the input of the first byte at or after the cursor that is
\* not white space, 0 when there is none
TokenStart(l) ==
    LET S == {i \in (l.position + 1)..Len(l.input) :
                 l.input[i] \notin {" ", "\t", "\n", "\r"}}
    IN  IF S = {} THEN 0 ELSE Least(S)

\* the index after the maximal run of letters and underscores from start
RunEnd(input, start) ==
    Least({j \in start..(Len(input) + 1) :
              j = Len(input) + 1 \/ input[j] \notin Letters})

(* C17: when NextToken starts at a letter or an underscore, the token's    *)
(* literal is the maximal run of letters and underscores from there (a     *)
(* digit ends it), its kind is the keyword kind when the run is one of fn, *)
(* let, true, false, if, else, return and IDENT otherwise, and the cursor  *)
(* is left on the first byte after the run.                                *)
C17_IdentifierScanning ==
    [][LET start == TokenStart(lexer)
           input == lexer.input
       IN  (start # 0 /\ input[start] \in Letters) =>
               LET end == RunEnd(input, start)
                   tok == tokens'[Len(tokens')]
               IN  /\ tok.Literal = SubSeq(input, start, end - 1)
                   /\ tok.Type = KindOfRun(tok.Literal)
                   /\ lexer'.position = end - 1
                   /\ lexer'.char = IF end <= Len(input) THEN input[end] ELSE NUL
                   /\ lexer'.readPosition = end]_vars

\* iff1 has been scanned: IDENT iff, then INT 1
C17_Witness ==
    /\ phase = "lex"
    /\ lexer.input = <<"i", "f", "f", "1">>
    /\ Len(tokens) = 2
    /\ tokens[1] = Token("IDENT", <<"i", "f", "f">>)
    /\ tokens[2] = Token("INT", <<"1">>)

----------------------------------------------------------------------------
(* The lookahead of one byte after "=" and "!", under LexSpec.             *)

\* the kind and literal the claim gives a token that starts with first,
\* with or without "=" after it
LookaheadToken(first, pair) ==
    CASE first = "=" /\ pair -> Token("EQ", <<"=", "=">>)
      [] first = "=" /\ ~pair -> Token("ASSIGN", <<"=">>)
      [] first = "!" /\ pair -> Token("NOT_EQ", <<"!", "=">>)
      [] first = "!" /\ ~pair -> Token("BANG", <<"!">>)

(* C18: when NextToken starts at "=" (at "!"), it returns EQ "==" (NOT_EQ  *)
(* "!=") and consumes two bytes exactly when the next byte is "=", and     *)
(* otherwise returns ASSIGN "=" (BANG "!") and consumes one byte; when the *)
(* byte is the last of the input the call after it returns EOF.            *)
C18_Lookahead ==
    [][LET start == TokenStart(lexer)
           input == lexer.input
       IN  (start # 0 /\ input[start] \in {"=", "!"}) =>
               LET pair == start < Len(input) /\ input[start + 1] = "="
                   used == IF pair THEN 2 ELSE 1
               IN  /\ tokens'[Len(tokens')] = LookaheadToken(input[start], pair)
                   /\ lexer'.position = start - 1 + used
                   /\ lexer'.char = IF start + used <= Len(input)
                                    THEN input[start + used] ELSE NUL
                   /\ start + used > Len(input) =>
                         NextToken(lexer').tok = Token("EOF", <<>>)]_vars

\* !== has been scanned: NOT_EQ, ASSIGN, EOF
C18_Witness ==
    /\ phase = "lex"
    /\ lexer.input = <<"!", "=", "=">>
    /\ tokens = <<Token("NOT_EQ", <<"!", "=">>), Token("ASSIGN", <<"=">>),
                  Token("EOF", <<>>)>>

----------------------------------------------------------------------------
(* ExpectSpec: short sentences that meet and that miss the token each      *)
(* production expects, and the steps that call expectPeek once.            *)

ExpectAlphabet == {"let", "x", "=", "(", ")", "fn", "{", "}", ","}

ExpectInit ==
    ReplInit({<<Line(Join(ws))>> : ws \in SeqsUpTo(ExpectAlphabet, MaxExpect)}
             \cup {<<Line(t)>> : t \in Scenarios})

ExpectSpec == ExpectInit /\ [][Next]_vars

\* the call fn is at the step pc, where it calls expectPeek
At(fn, pc) ==
    /\ phase = "parse"
    /\ stack # <<>>
    /\ Top.fn = fn
    /\ Top.pc = pc

\* the parser has advanced one token and recorded nothing
AdvancedOne ==
    /\ currentToken' = peekToken
    /\ peekToken' = NextToken(lexer).tok
    /\ lexer' = NextToken(lexer).lexer
    /\ errors' = errors

\* the window and the lexer are as they were and one message is at the end
\* of the error list
RejectedPeek(kind) ==
    /\ currentToken' = currentToken
    /\ peekToken' = peekToken
    /\ lexer' = lexer
    /\ errors' = errors \o <<[msg |-> "expected next token to be",
                              want |-> kind, got |-> peekToken.Type]>>

\* the running call has returned value to its caller
Returned(value) ==
    /\ Len(stack') = Len(stack) - 1
    /\ ret' = value

\* the running call has gone on to call callee
Called(callee) ==
    /\ Len(stack') = Len(stack) + 1
    /\ stack'[Len(stack')].fn = callee

(* C19: expectPeek(kind) advances exactly one token, leaves the error list *)
(* alone and succeeds when peek has the kind; otherwise it leaves current, *)
(* peek and the lexer alone, appends one message (expected kind, got the   *)
(* kind of peek) to the end of the error list and fails.  Seen at the      *)
(* steps of the productions that call it once.                             *)
C19_ExpectPeek ==
    [][/\ At("parseGroupedExpression", "expression") =>
             IF peekToken.Type = "RPAREN"
             THEN AdvancedOne /\ Returned(ret)
             ELSE RejectedPeek("RPAREN") /\ Returned(Nil)
       /\ At("parseFunctionLiteral", "start") =>
             IF peekToken.Type = "LPAREN"
             THEN AdvancedOne /\ Called("parseFunctionParameters")
             ELSE RejectedPeek("LPAREN") /\ Returned(Nil)
       /\ At("parseFunctionLiteral", "parameters") =>
             IF peekToken.Type = "LBRACE"
             THEN AdvancedOne /\ Called("parseBlockStatement")
             ELSE RejectedPeek("LBRACE") /\ Returned(Nil)
       /\ (At("parseLetStatement", "start") /\ peekToken.Type # "IDENT") =>
             RejectedPeek("IDENT") /\ Returned(NilLetStatement)
       /\ (At("parseCallArguments", "argument") /\ peekToken.Type # "COMMA") =>
             IF peekToken.Type = "RPAREN"
             THEN AdvancedOne /\ Len(stack') = Len(stack) - 1
             ELSE RejectedPeek("RPAREN") /\ Returned(<<>>)]_vars

\* ( x , has been read: the group found "," where it expects ")", and the
\* window still holds x and ","
C19_Witness ==
    /\ phase = "parse"
    /\ lexer.input = Join(<<"(", "x", ",">>)
    /\ errors = <<[msg |-> "expected next token to be",
                   want |-> "RPAREN", got |-> "COMMA"]>>
    /\ currentToken.Type = "IDENT"
    /\ peekToken.Type = "COMMA"

----------------------------------------------------------------------------
(* The window of two tokens on the lexer's stream, under ExpectSpec.       *)

\* the lexer of input after n calls of NextToken
RECURSIVE LexerAfter(_, _)
LexerAfter(input, n) ==
    IF n = 0 THEN LexerNew(input) ELSE NextToken(LexerAfter(input, n - 1)).lexer

\* the n-th token of the stream of input
TokenAt(input, n) == NextToken(LexerAfter(input, n - 1)).tok

\* the calls of NextToken it takes to bring a new lexer as far as l: every
\* call moves readPosition on
RECURSIVE AskedFrom(_, _, _)
AskedFrom(l, from, n) ==
    IF from.readPosition >= l.readPosition THEN n
    ELSE AskedFrom(l, NextToken(from).lexer, n + 1)

Asked(l) == AskedFrom(l, LexerNew(l.input), 0)

\* the lexer has been asked for n tokens, peek is the n-th and current the
\* one before it
WindowOnStream ==
    LET n == Asked(lexer)
    IN  /\ n >= 2
        /\ lexer = LexerAfter(lexer.input, n)
        /\ peekToken = TokenAt(lexer.input, n)
        /\ currentToken = TokenAt(lexer.input, n - 1)

(* C20: after New current is the first token of the lexer's stream and     *)
(* peek the second; after any sequence of parser operations peek is the    *)
(* token the lexer produced right after current, the lexer has been asked  *)
(* for as many tokens as the window has moved, and the window never moves  *)
(* back.                                                                   *)
C20_TwoTokenWindow ==
    /\ [](phase = "parse" => WindowOnStream)
    /\ [][/\ (phase = "read" /\ phase' = "parse") => Asked(lexer') = 2
          /\ (phase = "parse" /\ phase' = "parse") =>
                Asked(lexer') >= Asked(lexer)]_vars

\* fn ( x is being parsed and the window is on the third and fourth tokens
C20_Witness ==
    /\ phase = "parse"
    /\ lexer.input = Join(<<"fn", "(", "x">>)
    /\ Asked(lexer) = 4
    /\ currentToken.Type = "IDENT"
    /\ peekToken.Type = "EOF"

----------------------------------------------------------------------------
(* MissSpec: sentences of tokens that no prefix handler takes, with x      *)
(* among them, at the top level and in the body of a function literal.     *)

MissAlphabet == {";", ")", "}", "=", ",", "*", "else", "@", "x"}

MissSentences == {Join(ws) : ws \in SeqsUpTo(MissAlphabet, MaxMiss)}

MissInBlock ==
    {Join(<<"fn", "(", ")", "{", w, "x", "}">>) : w \in MissAlphabet \ {"}"}}

MissInit ==
    ReplInit({<<Line(t)>> : t \in MissSentences \cup MissInBlock \cup Scenarios})

MissSpec == MissInit /\ [][Next]_vars

\* the kinds of token the claim names as having no prefix handler: all but
\* those of identifiers, integers, booleans, ! and -, "(", if and fn
HandledKinds ==
    {"IDENT", "INT", "BANG", "MINUS", "TRUE", "FALSE", "LPAREN", "IF", "FUNCTION"}

NoPrefixMessage(kind) == [msg |-> "no prefix parse function for", type |-> kind]

\* an expression statement that starts at a token no prefix handler takes
\* and holds no expression
IsMiss(statement) ==
    /\ statement.kind = "ExpressionStatement"
    /\ statement.Token.Type \notin HandledKinds
    /\ statement.Expression = Nil

WindowUnchanged ==
    /\ currentToken' = currentToken
    /\ peekToken' = peekToken
    /\ lexer' = lexer

\* the statement list of the caller, where ParseProgram or
\* parseBlockStatement goes on or returns
ListAfter ==
    IF Len(stack') < Len(stack) THEN ret'.Statements
    ELSE stack'[Len(stack)].items

\* the messages of the statements of a list that are misses, in order (in a
\* sentence with no "*" no other statement records an error)
RECURSIVE MissMessages(_)
MissMessages(statements) ==
    IF statements = <<>> THEN <<>>
    ELSE (IF IsMiss(Head(statements))
          THEN <<NoPrefixMessage(Head(statements).Token.Type)>> ELSE <<>>)
         \o MissMessages(Tail(statements))

(* C21: when a statement starts with a token that has no prefix handler,   *)
(* parseExpression appends exactly one message naming the token's kind and *)
(* returns no expression; parseExpressionStatement still returns an        *)
(* ExpressionStatement with the expression absent, which prints as the     *)
(* empty string; the caller appends it to its statement list and goes on   *)
(* with the token after the statement (after the ";" that ends it, if      *)
(* any).                                                                   *)
C21_DispatchMiss ==
    /\ [][/\ (/\ At("parseExpression", "start")
              /\ Len(stack) >= 2
              /\ stack[Len(stack) - 1].fn = "parseExpressionStatement"
              /\ currentToken.Type \notin HandledKinds) =>
                 /\ errors' = errors \o <<NoPrefixMessage(currentToken.Type)>>
                 /\ WindowUnchanged
                 /\ Returned(Nil)
          /\ (/\ At("parseExpressionStatement", "expression")
              /\ Top.node.Token.Type \notin HandledKinds) =>
                 /\ Len(stack') = Len(stack) - 1
                 /\ IsMiss(ret')
                 /\ ret'.Token = Top.node.Token
                 /\ String(ret') = <<>>
                 /\ errors' = errors
                 /\ IF peekToken.Type = "SEMICOLON"
                    THEN AdvancedOne ELSE WindowUnchanged
          /\ (/\ At("ParseProgram", "statement") \/ At("parseBlockStatement", "statement")
              /\ ret.kind = "ExpressionStatement"
              /\ IsMiss(ret)) =>
                 /\ ListAfter = Append(Top.items, ret)
                 /\ AdvancedOne]_vars
    /\ [](\A i \in DOMAIN history :
             (/\ history[i].line \in MissSentences
              /\ \A j \in DOMAIN history[i].line : history[i].line[j] # "*") =>
                 /\ history[i].errors = MissMessages(history[i].program.Statements)
                 /\ \A k \in DOMAIN history[i].program.Statements :
                       LET statement == history[i].program.Statements[k]
                       IN  /\ statement.kind = "ExpressionStatement"
                           /\ ~IsMiss(statement) => String(statement) = <<"x">>)

\* ) x has been parsed: a statement with no expression, then x, one error
C21_Witness ==
    /\ history # <<>>
    /\ history[1].line = Join(<<")", "x">>)
    /\ history[1].errors = <<NoPrefixMessage("RPAREN")>>
    /\ Len(history[1].program.Statements) = 2
    /\ IsMiss(history[1].program.Statements[1])
    /\ String(history[1].program) = <<"x">>

----------------------------------------------------------------------------
(* Function literals whose parameter list holds any tokens.                *)

ParameterTokens == {"x", "1", "2", ",", "if"}

\* fn ( <tokens> ) { }
ParameterLine(ws) == Join(<<"fn", "(">> \o ws \o <<")", "{", "}">>)

ParameterInit ==
    ReplInit({<<Line(ParameterLine(ws))>> :
                  ws \in SeqsUpTo(ParameterTokens, MaxParamTokens)}
             \cup {<<Line(t)>> : t \in Scenarios})

ParameterSpec == ParameterInit /\ [][Next]_vars

\* the parameters of the function literals of a tree
ParametersOf(n) ==
    UNION {{m.Parameters[i] : i \in DOMAIN m.Parameters} :
               m \in {f \in Nodes(n) : f.kind = "FunctionLiteral"}}

(* C22: every parameter of a FunctionLiteral returned by a parse that      *)
(* recorded no errors is an Identifier built from an IDENT token; a        *)
(* parameter list that holds another token records an error.               *)
C22_ParametersAreIdentifiers ==
    \A i \in DOMAIN history :
        history[i].errors = <<>> =>
            \A param \in ParametersOf(history[i].program) :
                param.kind = "Identifier" /\ param.Token.Type = "IDENT"

----------------------------------------------------------------------------
(* Whole productions, the same with one token left out, and the same cut   *)
(* short: the inputs that leave a slot of a node without its operand.      *)

Productions ==
    {<<"let", "x", "=", "5", ";">>,
     <<"return", "true", ";">>,
     <<"!", "5", ";", "-", "15", ";">>,
     <<"if", "(", "x", "<", "y", ")", "{", "x", "}", "else", "{", "y", "}">>,
     <<"fn", "(", "x", ",", "y", ")", "{", "x", "+", "y", ";", "}">>,
     <<"add", "(", "1", ",", "2", "*", "3", ")", ";">>,
     <<"(", "5", "+", "5", ")", "*", "2">>}

\* ws without its i-th word
Without(ws, i) == SubSeq(ws, 1, i - 1) \o SubSeq(ws, i + 1, Len(ws))

Damaged ==
    UNION {{Without(ws, i) : i \in DOMAIN ws}
           \cup {SubSeq(ws, 1, k) : k \in 1..Len(ws)} : ws \in Productions}

\* an absent argument, condition and block statement that the parser walks past
Holes ==
    {<<"add", "(", ";", ")">>,
     <<"add", "(", "1", ",", ";", ")">>,
     <<"if", "(", ";", ")", "{", "x", "}">>,
     <<"fn", "(", ")", "{", "let", "}">>,
     <<"fn", "(", ")", "{", "return", "}">>}

\* lines with the literal 08, which ParseInt rejects
Unparsable ==
    {<<"0", "8">>,
     Join(<<"let", "x", "=">>) \o <<" ", "0", "8">>,
     Join(<<"x", "+">>) \o <<" ", "0", "8">>}

CompleteAlphabet ==
    {"let", "return", "x", "1", "=", ";", "-", "+", "(", ")", "{", "}",
     "if", "else", "fn", ","}

CompleteInit ==
    ReplInit({<<Line(Join(ws))>> :
                  ws \in Damaged \cup Holes
                        \cup SeqsUpTo(CompleteAlphabet, MaxComplete)}
             \cup {<<Line(t)>> : t \in Unparsable})

CompleteSpec == CompleteInit /\ [][Next]_vars

\* no node: a nil interface or a nil pointer in an interface
Absent(n) == n.kind \in {"nil", "nilptr"}

\* the slots of n that have to hold a node
Required(n) ==
    CASE n.kind = "ExpressionStatement" -> <<n.Expression>>
      [] n.kind = "LetStatement" -> <<n.Name, n.Value>>
      [] n.kind = "ReturnStatement" -> <<n.ReturnValue>>
      [] n.kind = "PrefixExpression" -> <<n.Right>>
      [] n.kind = "InfixExpression" -> <<n.Left, n.Right>>
      [] n.kind = "IfExpression" -> <<n.Condition, n.Consequence>>
      [] n.kind = "FunctionLiteral" -> <<n.Body>>
      [] n.kind = "CallExpression" -> <<n.Function>> \o n.Arguments
      [] n.kind \in {"Program", "BlockStatement"} -> n.Statements
      [] OTHER -> <<>>

\* n is a node and none of its slots is absent
Filled(n) == ~Absent(n) /\ \A i \in DOMAIN Required(n) : ~Absent(Required(n)[i])

\* the tree of n is complete
Complete(n) == Filled(n) /\ \A m \in Nodes(n) : Absent(m) \/ Filled(m)

\* the functions of the parser that return a list and not a node
ListFunctions == {"parseFunctionParameters", "parseCallArguments"}

(* C23: when ParseProgram returns with an empty error list the tree is     *)
(* complete: every statement of the program and of every block is a node,  *)
(* every operand, condition, consequence, body, called function, argument, *)
(* name and value is present, and String() reaches no absent node.  And    *)
(* every call of the parser that returns no node, a node with an absent    *)
(* slot or a list with an absent element returns with an error recorded.   *)
C23_CompleteTree ==
    /\ []((Parsed /\ errors = <<>>) => (Complete(ret) /\ ~NilDeref(ret)))
    /\ [][(phase = "parse" /\ stack # <<>> /\ Len(stack') < Len(stack))
             => IF Top.fn \in ListFunctions
                THEN (\E i \in DOMAIN ret' : Absent(ret'[i])) => errors' # <<>>
                ELSE ~Filled(ret') => errors' # <<>>]_vars

C23_Witness ==
    /\ Parsed
    /\ errors = <<>>
    /\ lexer.input = Join(<<"if", "(", "x", "<", "y", ")", "{", "x", "}",
                            "else", "{", "y", "}">>)
    /\ Complete(ret)
    /\ ret.Statements[1].Expression.kind = "IfExpression"
    /\ ~Absent(ret.Statements[1].Expression.Alternative)

====
